---- MODULE Spec2Model ----
(***************************************************************************)
(* Model of the version-range consistency checker of                       *)
(* check_version_validity.py: version triples, bounds, spans, version      *)
(* sets and their intersection, the operator -> set translation, and the   *)
(* check_validity driver (grouping by package name, folding every          *)
(* package's clauses, batch reporting); the same classes called directly;  *)
(* and getOrCreate and stop of DataprocSparkSession (session.py).          *)
(*                                                                         *)
(* A Python exception is modelled as the value Raise(e); an operator that  *)
(* receives a raised value from a call passes it on, as the exception      *)
(* propagates through the caller's frame.                                  *)
(***************************************************************************)
EXTENDS Integers, Sequences, FiniteSets, TLC

(***************************************************************************)
(* Bounds of the model.                                                    *)
(***************************************************************************)
\* Largest release component of the version strings given as input.
MaxVer == 1
\* Largest number of clauses of one package in the single-package inputs.
MaxClauses == 2
\* Largest number of requirement strings in the multi-package inputs.
MaxReqs == 2

(***************************************************************************)
(* Python values.                                                          *)
(***************************************************************************)
\* None in an `int | None` field (minor, patch); components are >= 0.
None == -1

Raise(e) == [raise |-> e]

IsRaise(x) == "raise" \in DOMAIN x

(***************************************************************************)
(* Version strings.  A string is the sequence of its tokens: a release     *)
(* component [num |-> n], the dot, the star or the qualifier "post1".       *)
(***************************************************************************)
Num(n) == [num |-> n]

Dot == [sym |-> "."]

Star == [sym |-> "*"]

Post == [sym |-> "post1"]

\* What may follow the release in a version text: nothing, ".*", ".post1".
NoTail == <<>>

Wildcard == <<Dot, Star>>

PostRelease == <<Dot, Post>>

IsNum(tok) == "num" \in DOMAIN tok

RECURSIVE JoinRelease(_)
\* "1.2.3" from <<1, 2, 3>>
JoinRelease(rel) ==
    IF Len(rel) = 1 THEN <<Num(rel[1])>>
    ELSE <<Num(rel[1]), Dot>> \o JoinRelease(Tail(rel))

\* The version text of a clause: the release followed by the tail.
VersionString(rel, tail) == JoinRelease(rel) \o tail

\* str.endswith(".*")
EndsWithWildcard(s) ==
    Len(s) >= 2 /\ s[Len(s) - 1] = Dot /\ s[Len(s)] = Star

RECURSIVE IsVersionText(_)
\* The grammar packaging.version accepts, on these tokens:
\* num ("." num)* (".post1")?
IsVersionText(s) ==
    /\ Len(s) >= 1
    /\ IsNum(s[1])
    /\ \/ Len(s) = 1
       \/ Len(s) = 3 /\ s[2] = Dot /\ s[3] = Post
       \/ Len(s) >= 3 /\ s[2] = Dot /\ IsVersionText(SubSeq(s, 3, Len(s)))

RECURSIVE ReleaseOf(_)
\* The release components of a version text: the qualifier is dropped.
ReleaseOf(s) ==
    IF Len(s) = 1 \/ s[3] = Post THEN <<s[1].num>>
    ELSE <<s[1].num>> \o ReleaseOf(SubSeq(s, 3, Len(s)))

\* packaging.version.parse: a Version (of which the code reads .release), or
\* InvalidVersion.
parse_version(s) ==
    IF IsVersionText(s) THEN [release |-> ReleaseOf(s)] ELSE Raise("InvalidVersion")

(***************************************************************************)
(* VersionTriple                                                           *)
(***************************************************************************)
\* Mutant of VersionTriple: __post_init__ checks nothing.
VersionTriple_unchecked(major, minor, patch) ==
    [major |-> major, minor |-> minor, patch |-> patch]

VersionTriple(major, minor, patch) ==
    IF minor = None /\ patch # None
    THEN Raise("AssertionError: minor version must be set if patch version is set")
    ELSE [major |-> major, minor |-> minor, patch |-> patch]

\* Mutant of bump: the branch for a set minor is missing, so that a triple
\* without patch has its major incremented.
bump_without_minor_branch(t) ==
    IF t.patch # None THEN VersionTriple(t.major, t.minor, t.patch + 1)
    ELSE VersionTriple(t.major + 1, t.minor, t.patch)

bump(t) ==
    IF t.patch # None THEN VersionTriple(t.major, t.minor, t.patch + 1)
    ELSE IF t.minor # None THEN VersionTriple(t.major, t.minor + 1, t.patch)
    ELSE VersionTriple(t.major + 1, t.minor, t.patch)

bump_compatible(t) ==
    IF t.minor = None
    THEN Raise("Exception: ~= cannot be used with major-only version")
    ELSE IF t.patch = None THEN VersionTriple(t.major + 1, t.minor, t.patch)
    ELSE VersionTriple(t.major, t.minor + 1, t.patch)

\* `x or 0`
OrZero(x) == IF x = None THEN 0 ELSE x

\* Mutant of compare: the patch components are not compared.
compare_without_patch(a, b) ==
    IF a.major - b.major # 0 THEN a.major - b.major
    ELSE OrZero(a.minor) - OrZero(b.minor)

\* Mutant of compare: an unset minor or patch is not replaced by 0, so that
\* it is below every set one.
compare_unset_below_zero(a, b) ==
    IF a.major - b.major # 0 THEN a.major - b.major
    ELSE IF a.minor - b.minor # 0 THEN a.minor - b.minor
         ELSE a.patch - b.patch

compare(a, b) ==
    IF a.major - b.major # 0 THEN a.major - b.major
    ELSE IF OrZero(a.minor) - OrZero(b.minor) # 0
         THEN OrZero(a.minor) - OrZero(b.minor)
         ELSE OrZero(a.patch) - OrZero(b.patch)

\* VersionTriple.parse; VersionTriple(*v) takes at most three positional
\* arguments.
parse(s) ==
    LET s1 == IF EndsWithWildcard(s) THEN <<s[Len(s) + 1 - Len(Wildcard)]>>
              ELSE s
        pv == parse_version(s1)
        v  == pv.release
    IN  IF IsRaise(pv) THEN pv
        ELSE IF Len(v) > 3 THEN Raise("TypeError")
        ELSE VersionTriple(v[1],
                           IF Len(v) >= 2 THEN v[2] ELSE None,
                           IF Len(v) >= 3 THEN v[3] ELSE None)

(***************************************************************************)
(* LowerBound, UpperBound                                                  *)
(***************************************************************************)
\* None in a `VersionTriple | None` field: the bound is unbounded.
NoVersion == [none |-> TRUE]

LowerBound(version) == [kind |-> "lower", version |-> version]

UpperBound(version) == [kind |-> "upper", version |-> version]

LowerBound_compare(self, other) ==
    IF other.kind = "lower"
    THEN IF self.version = NoVersion
         THEN (IF other.version = NoVersion THEN 0 ELSE -1)
         ELSE IF other.version = NoVersion THEN 1
         ELSE compare(self.version, other.version)
    ELSE IF self.version = NoVersion \/ other.version = NoVersion THEN -1
         ELSE compare(self.version, other.version)

UpperBound_compare(self, other) ==
    IF other.kind = "lower"
    THEN IF self.version = NoVersion \/ other.version = NoVersion THEN 1
         ELSE compare(self.version, other.version)
    ELSE IF self.version = NoVersion
         THEN (IF other.version = NoVersion THEN 0 ELSE 1)
         ELSE IF other.version = NoVersion THEN -1
         ELSE compare(self.version, other.version)

\* Mutant of LowerBound_lt: bounds that compare equal are in order too.
LowerBound_lt_or_equal(self, other) == LowerBound_compare(self, other) <= 0

\* LowerBound.__lt__
LowerBound_lt(self, other) == LowerBound_compare(self, other) < 0

\* Mutant of UpperBound_lt: the comparison is reversed.
UpperBound_lt_reversed(self, other) == UpperBound_compare(self, other) > 0

\* UpperBound.__lt__
UpperBound_lt(self, other) == UpperBound_compare(self, other) < 0

\* UpperBound.__le__
UpperBound_le(self, other) == UpperBound_compare(self, other) <= 0

LowerBound_contains(self, version) ==
    self.version = NoVersion \/ compare(version, self.version) >= 0

UpperBound_contains(self, version) ==
    self.version = NoVersion \/ compare(version, self.version) < 0

(***************************************************************************)
(* VersionSpan, FixedVersion, DisjointVersionSpan, VersionSet              *)
(***************************************************************************)
\* The constructor with its __post_init__ check.
\* Unchecked mutant of VersionSpan: any two bounds make a span.
VersionSpan_unchecked(lower, upper) ==
    [kind |-> "span", lower |-> lower, upper |-> upper]

VersionSpan(lower, upper) ==
    IF UpperBound_le(upper, lower)
    THEN Raise("Exception: version span must be non-empty")
    ELSE [kind |-> "span", lower |-> lower, upper |-> upper]

VersionSpan_unbounded == VersionSpan(LowerBound(NoVersion), UpperBound(NoVersion))

VersionSpan_contains(self, version) ==
    LowerBound_contains(self.lower, version) /\ UpperBound_contains(self.upper, version)

FixedVersion(version) == [kind |-> "fixed", version |-> version]

DisjointVersionSpan(spans) == [kind |-> "disjoint", spans |-> spans]

\* The loop returns True at the first member that contains the version.
DisjointVersionSpan_contains(self, version) ==
    \E i \in 1..Len(self.spans) : VersionSpan_contains(self.spans[i], version)

\* VersionSet(None)
VersionSet_empty == [kind |-> "empty"]

\* VersionSet(version): the payload itself; a raised constructor argument
\* propagates.
VersionSet(version) == version

is_empty(self) == self.kind = "empty"

\* None as the result of merge_spans: the spans do not overlap.
NoSpan == [none |-> TRUE]

\* Mutant of merge_spans: the upper bounds are not compared, that of a is
\* kept.
merge_spans_upper_of_a(a, b) ==
    LET lower == IF LowerBound_lt(a.lower, b.lower) THEN b.lower ELSE a.lower
        upper == a.upper
    IN  IF LowerBound_lt(lower, upper) THEN VersionSpan(lower, upper)
        ELSE NoSpan

merge_spans(a, b) ==
    LET lower == IF LowerBound_lt(a.lower, b.lower) THEN b.lower ELSE a.lower
        upper == IF UpperBound_lt(a.upper, b.upper) THEN a.upper ELSE b.upper
    IN  IF LowerBound_lt(lower, upper) THEN VersionSpan(lower, upper)
        ELSE NoSpan

RECURSIVE merge_span_with_disjoint_from(_, _, _)
\* The for-loop of merge_span_with_disjoint, from member i on.
merge_span_with_disjoint_from(span, spans, i) ==
    IF i > Len(spans.spans) THEN VersionSet_empty
    ELSE LET new_span == merge_spans(span, spans.spans[i])
         IN  IF new_span # NoSpan THEN VersionSet(new_span)
             ELSE merge_span_with_disjoint_from(span, spans, i + 1)

\* Mutant of merge_span_with_disjoint: the members are scanned from the last
\* one to the first.
merge_span_with_disjoint_backwards(span, spans) ==
    LET n == Len(spans.spans)
        reversed == [j \in 1..n |-> spans.spans[n + 1 - j]]
    IN  merge_span_with_disjoint_from(span, DisjointVersionSpan(reversed), 1)


RECURSIVE merge_disjoint_pairs(_, _, _, _)
\* The nested loops of merge_disjoint_spans: the list `spans` built from the
\* pair (i, j) on, in the loops' order.
merge_disjoint_pairs(a, b, i, j) ==
    IF i > Len(a.spans) THEN <<>>
    ELSE IF j > Len(b.spans) THEN merge_disjoint_pairs(a, b, i + 1, 1)
    ELSE LET span == merge_spans(a.spans[i], b.spans[j])
             rest == merge_disjoint_pairs(a, b, i, j + 1)
         IN  IF IsRaise(span) THEN <<span>>
             ELSE IF span # NoSpan THEN <<span>> \o rest
             ELSE rest

\* Mutant of merge_disjoint_spans: only the first non-empty merge is kept.
merge_disjoint_spans_first_only(a, b) ==
    LET spans == merge_disjoint_pairs(a, b, 1, 1)
    IN  IF Len(spans) > 0 /\ IsRaise(spans[1]) THEN spans[1]
        ELSE IF Len(spans) > 0 THEN VersionSet(DisjointVersionSpan(<<spans[1]>>))
        ELSE VersionSet_empty

merge_disjoint_spans(a, b) ==
    LET spans == merge_disjoint_pairs(a, b, 1, 1)
    IN  IF Len(spans) > 0 /\ IsRaise(spans[1]) THEN spans[1]
        ELSE IF Len(spans) > 0 THEN VersionSet(DisjointVersionSpan(spans))
        ELSE VersionSet_empty

\* Mutant of merge_span_with_disjoint: the merges with all members are
\* kept, as a union.
merge_span_with_disjoint_keep_all(span, spans) ==
    merge_disjoint_spans(DisjointVersionSpan(<<span>>), spans)

merge_span_with_disjoint(span, spans) == merge_span_with_disjoint_from(span, spans, 1)

\* Mutant of FixedAndFixed: the versions are compared by their release
\* components, a missing component counting as 0.
FixedAndFixed_by_release(self, other) ==
    LET ra == ReleaseOf(self.version)
        rb == ReleaseOf(other.version)
        part(r, j) == IF j <= Len(r) THEN r[j] ELSE 0
    IN  IF \A j \in 1..(Len(ra) + Len(rb)) : part(ra, j) = part(rb, j) THEN self
        ELSE VersionSet_empty

\* Fixed AND Fixed: `a == b` on the version strings.
FixedAndFixed(self, other) ==
    IF self.version = other.version THEN self ELSE VersionSet_empty

\* Fixed AND (Span | Disjoint): `keep` is the Fixed operand.
FixedAndRange(keep, range) ==
    LET version == parse(keep.version)
    IN  IF IsRaise(version) THEN version
        ELSE IF (IF range.kind = "span" THEN VersionSpan_contains(range, version)
                 ELSE DisjointVersionSpan_contains(range, version))
             THEN keep
             ELSE VersionSet_empty

\* Mutant of And: the case (_, None) returns self, not other.
And_other_empty_returns_self(self, other) ==
    IF self.kind = "empty" THEN self
    ELSE IF other.kind = "empty" THEN self
    ELSE IF self.kind = "fixed" /\ other.kind = "fixed"
         THEN FixedAndFixed(self, other)
    ELSE IF self.kind = "fixed" /\ other.kind \in {"span", "disjoint"}
         THEN FixedAndRange(self, other)
    ELSE IF self.kind \in {"span", "disjoint"} /\ other.kind = "fixed"
         THEN FixedAndRange(other, self)
    ELSE IF self.kind = "span" /\ other.kind = "span"
         THEN (IF merge_spans(self, other) = NoSpan THEN VersionSet_empty
               ELSE VersionSet(merge_spans(self, other)))
    ELSE IF self.kind = "span" /\ other.kind = "disjoint"
         THEN merge_span_with_disjoint(self, other)
    ELSE IF self.kind = "disjoint" /\ other.kind = "span"
         THEN merge_span_with_disjoint(other, self)
    ELSE merge_disjoint_spans(self, other)

\* Mutant of And: the case (DisjointVersionSpan, FixedVersion) is missing.
And_without_disjoint_and_fixed(self, other) ==
    IF self.kind = "empty" THEN self
    ELSE IF other.kind = "empty" THEN other
    ELSE IF self.kind = "fixed" /\ other.kind = "fixed"
         THEN FixedAndFixed(self, other)
    ELSE IF self.kind = "fixed" /\ other.kind \in {"span", "disjoint"}
         THEN FixedAndRange(self, other)
    ELSE IF self.kind = "span" /\ other.kind = "fixed"
         THEN FixedAndRange(other, self)
    ELSE IF self.kind = "span" /\ other.kind = "span"
         THEN (IF merge_spans(self, other) = NoSpan THEN VersionSet_empty
               ELSE VersionSet(merge_spans(self, other)))
    ELSE IF self.kind = "span" /\ other.kind = "disjoint"
         THEN merge_span_with_disjoint(self, other)
    ELSE IF self.kind = "disjoint" /\ other.kind = "span"
         THEN merge_span_with_disjoint(other, self)
    ELSE IF self.kind = "disjoint" /\ other.kind = "disjoint"
         THEN merge_disjoint_spans(self, other)
    ELSE Raise("AssertionError: invalid version set pair")

\* VersionSet.__and__
And(self, other) ==
    IF self.kind = "empty" THEN self
    ELSE IF other.kind = "empty" THEN other
    ELSE IF self.kind = "fixed" /\ other.kind = "fixed"
         THEN FixedAndFixed(self, other)
    ELSE IF self.kind = "fixed" /\ other.kind \in {"span", "disjoint"}
         THEN FixedAndRange(self, other)
    ELSE IF self.kind \in {"span", "disjoint"} /\ other.kind = "fixed"
         THEN FixedAndRange(other, self)
    ELSE IF self.kind = "span" /\ other.kind = "span"
         THEN (IF merge_spans(self, other) = NoSpan THEN VersionSet_empty
               ELSE VersionSet(merge_spans(self, other)))
    ELSE IF self.kind = "span" /\ other.kind = "disjoint"
         THEN merge_span_with_disjoint(self, other)
    ELSE IF self.kind = "disjoint" /\ other.kind = "span"
         THEN merge_span_with_disjoint(other, self)
    ELSE IF self.kind = "disjoint" /\ other.kind = "disjoint"
         THEN merge_disjoint_spans(self, other)
    ELSE Raise("AssertionError: invalid version set pair")

(***************************************************************************)
(* version_set: the set of one clause (operator, version string)           *)
(***************************************************************************)
\* VersionSpan(LowerBound(lo), UpperBound(hi)) where lo or hi may have raised.
SpanOf(lo, hi) ==
    IF IsRaise(lo) THEN lo
    ELSE IF IsRaise(hi) THEN hi
    ELSE VersionSpan(LowerBound(lo), UpperBound(hi))

\* The operator strings of VersionOp other than "===".
RangeOps == {"~=", "==", "!=", "<=", ">=", "<", ">"}

\* Mutant of version_set: the lower bound of `>` is the version itself, not
\* its bump.
version_set_gt_not_bumped(op, version) ==
    IF op = "===" THEN VersionSet(FixedVersion(version))
    ELSE IF op \notin RangeOps THEN Raise("Exception: invalid version operator")
    ELSE LET v == parse(version)
         IN  IF IsRaise(v) THEN v
             ELSE CASE op = "~=" -> VersionSet(SpanOf(v, bump_compatible(v)))
                    [] op = "==" -> VersionSet(SpanOf(v, bump(v)))
                    [] op = "!=" ->
                         LET lower_span == SpanOf(NoVersion, v)
                             upper_span == SpanOf(bump(v), NoVersion)
                         IN  IF IsRaise(lower_span) THEN lower_span
                             ELSE IF IsRaise(upper_span) THEN upper_span
                             ELSE VersionSet(DisjointVersionSpan(<<lower_span, upper_span>>))
                    [] op = "<=" -> VersionSet(SpanOf(NoVersion, bump(v)))
                    [] op = ">=" -> VersionSet(SpanOf(v, NoVersion))
                    [] op = "<"  -> VersionSet(SpanOf(NoVersion, v))
                    [] op = ">"  -> VersionSet(SpanOf(v, NoVersion))

version_set(op, version) ==
    IF op = "===" THEN VersionSet(FixedVersion(version))
    ELSE IF op \notin RangeOps THEN Raise("Exception: invalid version operator")
    ELSE LET v == parse(version)
         IN  IF IsRaise(v) THEN v
             ELSE CASE op = "~=" -> VersionSet(SpanOf(v, bump_compatible(v)))
                    [] op = "==" -> VersionSet(SpanOf(v, bump(v)))
                    [] op = "!=" ->
                         LET lower_span == SpanOf(NoVersion, v)
                             upper_span == SpanOf(bump(v), NoVersion)
                         IN  IF IsRaise(lower_span) THEN lower_span
                             ELSE IF IsRaise(upper_span) THEN upper_span
                             ELSE VersionSet(DisjointVersionSpan(<<lower_span, upper_span>>))
                    [] op = "<=" -> VersionSet(SpanOf(NoVersion, bump(v)))
                    [] op = ">=" -> VersionSet(SpanOf(v, NoVersion))
                    [] op = "<"  -> VersionSet(SpanOf(NoVersion, v))
                    [] op = ">"  -> VersionSet(SpanOf(bump(v), NoVersion))

(***************************************************************************)
(* Inputs.  A requirement is a package name with its specifier set; a      *)
(* clause (packaging's Specifier) is an operator with a version string.    *)
(* The grammar of requirement strings admits ".*" after == and != only,    *)
(* and ~= only with two release components or more.  A specifier set is    *)
(* the set of its clauses as written: two clauses of one operator whose    *)
(* versions differ in trailing zeros only are both kept and both folded.   *)
(***************************************************************************)
RECURSIVE ReleasesOfLen(_)
ReleasesOfLen(n) ==
    IF n = 0 THEN {<<>>}
    ELSE {r \o <<c>> : r \in ReleasesOfLen(n - 1), c \in 0..MaxVer}

\* Releases of one, two or three components.
Releases == ReleasesOfLen(1) \cup ReleasesOfLen(2) \cup ReleasesOfLen(3)

Clause(op, rel, tail) == [op |-> op, version |-> VersionString(rel, tail)]

RangeClauses ==
    {Clause(op, r, NoTail) : op \in RangeOps \ {"~="}, r \in Releases}
    \cup {Clause("~=", r, NoTail) : r \in ReleasesOfLen(2) \cup ReleasesOfLen(3)}

WildcardClauses ==
    {Clause(op, r, Wildcard) : op \in {"==", "!="}, r \in ReleasesOfLen(1) \cup ReleasesOfLen(2)}

RECURSIVE SetsUpTo(_, _)
\* The subsets of S of at most n elements.
SetsUpTo(S, n) ==
    IF n = 0 THEN {{}}
    ELSE LET prev == SetsUpTo(S, n - 1)
         IN  prev \cup {s \cup {c} : s \in prev, c \in S}

Requirement(name, specifier) == [name |-> name, specifier |-> specifier]

\* One requirement string for one package, of at most n clauses.
SingleInputs(n) ==
    {<<Requirement("a", S)>> : S \in SetsUpTo(RangeClauses \cup WildcardClauses, n)}

(***************************************************************************)
(* Inputs of several packages: lists of up to MaxReqs requirement strings  *)
(* for the packages a and b, over a small set of clauses: an upper and a   *)
(* lower bound on a major version, a wildcard and a four-component         *)
(* version.                                                                *)
(***************************************************************************)
BatchClauses ==
    {Clause(op, <<m>>, NoTail) : op \in {"<", ">="}, m \in 0..MaxVer}
    \cup {Clause("==", <<m>>, Wildcard) : m \in 0..MaxVer}
    \cup {Clause("==", <<m, 0, 0, 0>>, NoTail) : m \in 0..MaxVer}

BatchRequirements ==
    {Requirement(n, S) : n \in {"a", "b"}, S \in SetsUpTo(BatchClauses, MaxClauses)}

RECURSIVE ListsUpTo(_, _)
\* The non-empty lists of at most n elements of S.
ListsUpTo(S, n) ==
    IF n = 0 THEN {}
    ELSE LET prev == ListsUpTo(S, n - 1)
         IN  {<<x>> : x \in S} \cup prev \cup {l \o <<x>> : l \in prev, x \in S}

\* Lists of at most n requirement strings.
BatchInputs(n) == ListsUpTo(BatchRequirements, n)

(***************************************************************************)
(* Inputs in the shape of the lists of main(): one package whose clauses   *)
(* come in separate list entries.                                          *)
(***************************************************************************)
\* "a>A" alone, or "a>A" followed by "a<B".
GtLtInputs ==
    {<<Requirement("a", {Clause(">", A, NoTail)})>> : A \in Releases}
    \cup {<<Requirement("a", {Clause(">", A, NoTail)}),
            Requirement("a", {Clause("<", B, NoTail)})>> : A \in Releases, B \in Releases}

\* "a==A" followed by "a==B", each with or without a post-release qualifier.
EqEqInputs ==
    {<<Requirement("a", {Clause("==", A, tA)}), Requirement("a", {Clause("==", B, tB)})>> :
        A \in Releases, B \in Releases,
        tA \in {NoTail, PostRelease}, tB \in {NoTail, PostRelease}}

(***************************************************************************)
(* check_validity as a state machine                                       *)
(***************************************************************************)
VARIABLES
    ps,          \* the argument: the list of requirements
    pc,          \* "group", "check", "fold", "done"
    i,           \* position of the grouping loop in ps
    names,       \* the keys of the dict specs, in insertion order
    specs,       \* the dict specs: name -> specifier set
    k,           \* position of the checking loop in names
    todo,        \* is_consistent: clauses of the specifier set not yet iterated
    joint_spec,  \* is_consistent: the accumulator
    broken,      \* the list broken (names; the specifier set is specs[name])
    outcome,     \* "running", "returned", or the exception raised
    order,       \* history: name -> the clauses folded so far, in iteration order
    call,        \* the last call made from outside: function, arguments, result
    active_s8s_session_id,    \* DataprocSparkSession._active_s8s_session_id
    active_s8s_session_uuid,  \* DataprocSparkSession._active_s8s_session_uuid
    default_session,          \* DataprocSparkSession._default_session
    sessions,                 \* the session objects getOrCreate has returned
    created,                  \* history: the session ids generated so far
    stop_create_session_pbar_event,  \* __create: the event of the last call is set
    create_session_pbar_thread,      \* __create: the progress-bar thread of the last call
    tpc,            \* terminate_s8s_session called on its own: its position
    state,          \* terminate_s8s_session: the local `state`
    raised,         \* terminate_s8s_session: the exception raised in the try statement
    termination,    \* terminate_s8s_session: Running, Returned or the exception raised
    observed,       \* history: the last states that get_session has returned
    service_state   \* the state of the session at the service

checkVars == <<ps, pc, i, names, specs, k, todo, joint_spec, broken, outcome, order>>

sessionVars ==
    <<active_s8s_session_id, active_s8s_session_uuid, default_session, sessions, created,
      stop_create_session_pbar_event, create_session_pbar_thread,
      tpc, state, raised, termination, observed, service_state>>

\* terminate_s8s_session called on its own, and the session it is called for.
terminateVars == <<tpc, state, raised, termination, observed, service_state>>

\* The locals of __create that outlive a step of it.
pbarVars == <<stop_create_session_pbar_event, create_session_pbar_thread>>

vars == <<checkVars, call, sessionVars>>

\* No call has been made yet.
NoCall == [fn |-> "none"]

\* The class attributes of DataprocSparkSession as the class body sets them.
NoSession ==
    /\ active_s8s_session_id = None
    /\ active_s8s_session_uuid = None
    /\ default_session = None
    /\ sessions = {}
    /\ created = {}
    /\ stop_create_session_pbar_event = FALSE
    /\ create_session_pbar_thread = "none"
    /\ tpc = "idle"
    /\ state = "None"
    /\ raised = "none"
    /\ termination = [running |-> TRUE]
    /\ observed = <<>>
    /\ service_state = "ACTIVE"

PackageNames == {"a", "b"}

ConflictError == "Exception: inconsistent package specifiers"

InitWith(inputs) ==
    /\ ps \in inputs
    /\ pc = "group"
    /\ i = 1
    /\ names = <<>>
    /\ specs = [n \in PackageNames |-> {}]
    /\ k = 1
    /\ todo = {}
    /\ joint_spec = VersionSet(VersionSpan_unbounded)
    /\ broken = <<>>
    /\ outcome = "running"
    /\ order = [n \in PackageNames |-> <<>>]
    /\ call = NoCall
    /\ NoSession

Init == InitWith(SingleInputs(MaxClauses))

InNames(n) == \E j \in 1..Len(names) : names[j] = n

\* One iteration of `for req in reqs`: specs[name] = specs.get(name) & req.specifier
Group ==
    /\ pc = "group"
    /\ i <= Len(ps)
    /\ specs' = [specs EXCEPT ![ps[i].name] = @ \cup ps[i].specifier]
    /\ names' = IF InNames(ps[i].name) THEN names ELSE Append(names, ps[i].name)
    /\ i' = i + 1
    /\ pc' = IF i = Len(ps) THEN "check" ELSE "group"
    /\ UNCHANGED <<ps, k, todo, joint_spec, broken, outcome, order>>
    /\ UNCHANGED <<call, sessionVars>>

\* `for name, spec_set in specs.items()`: is_consistent(spec_set) is entered.
BeginFold ==
    /\ pc = "check"
    /\ k <= Len(names)
    /\ joint_spec' = VersionSet(VersionSpan_unbounded)
    /\ todo' = specs[names[k]]
    /\ pc' = "fold"
    /\ UNCHANGED <<ps, i, names, specs, k, broken, outcome, order>>
    /\ UNCHANGED <<call, sessionVars>>

\* The table _VERSION_OPS: the operator strings of VersionOp.
VERSION_OPS == RangeOps \cup {"==="}

\* The body of `for spec in specs` for the clause spec: the new accumulator,
\* or the exception raised on the way (parse_version_op raises on an operator
\* that is not in the table).
FoldStep(acc, spec) ==
    IF spec.op \notin VERSION_OPS THEN Raise("Exception: unknown version operator")
    ELSE LET vspec == version_set(spec.op, spec.version)
         IN  IF IsRaise(vspec) THEN vspec ELSE And(acc, vspec)

\* One iteration of the loop of is_consistent.  The specifier set is a set:
\* any clause not yet visited may come next.  An exception raised by the
\* iteration leaves is_consistent and check_validity.
FoldClause ==
    /\ pc = "fold"
    /\ \E spec \in todo :
         LET r == FoldStep(joint_spec, spec)
         IN  /\ order' = [order EXCEPT ![names[k]] = Append(@, spec)]
             /\ IF IsRaise(r)
                THEN /\ outcome' = r.raise
                     /\ pc' = "done"
                     /\ UNCHANGED <<todo, joint_spec>>
                ELSE /\ joint_spec' = r
                     /\ todo' = todo \ {spec}
                     /\ UNCHANGED <<pc, outcome>>
    /\ UNCHANGED <<ps, i, names, specs, k, broken>>
    /\ UNCHANGED <<call, sessionVars>>

\* is_consistent returns `not joint_spec.is_empty()`; an inconsistent
\* package is appended to broken.
EndFold ==
    /\ pc = "fold"
    /\ todo = {}
    /\ broken' = IF is_empty(joint_spec) THEN Append(broken, names[k]) ELSE broken
    /\ k' = k + 1
    /\ pc' = "check"
    /\ UNCHANGED <<ps, i, names, specs, todo, joint_spec, outcome, order>>
    /\ UNCHANGED <<call, sessionVars>>

\* After the loop: raise if broken is not empty, else return.
Finish ==
    /\ pc = "check"
    /\ k > Len(names)
    /\ outcome' = IF Len(broken) > 0 THEN ConflictError ELSE "returned"
    /\ pc' = "done"
    /\ UNCHANGED <<ps, i, names, specs, k, todo, joint_spec, broken, order>>
    /\ UNCHANGED <<call, sessionVars>>

Next == Group \/ BeginFold \/ FoldClause \/ EndFold \/ Finish

Spec == Init /\ [][Next]_vars

\* check_validity on a lower and an upper bound of one package.
InitGtLt == InitWith(GtLtInputs)

SpecGtLt == InitGtLt /\ [][Next]_vars

\* check_validity on two == clauses of one package.
InitEqEq == InitWith(EqEqInputs)

SpecEqEq == InitEqEq /\ [][Next]_vars

\* check_validity on the inputs of several packages.
InitBatch == InitWith(BatchInputs(MaxReqs))

SpecBatch == InitBatch /\ [][Next]_vars

(***************************************************************************)
(* Vocabulary of the properties                                            *)
(***************************************************************************)
\* The package has been appended to broken.
InBroken(n) == \E j \in 1..Len(broken) : broken[j] = n

\* is_consistent has returned for the package.
Checked(n) == \E j \in 1..Len(names) : names[j] = n /\ j < k

\* check_validity has ended by returning or by raising the conflict error.
Completed == pc = "done" /\ outcome \in {"returned", ConflictError}

\* Concrete versions: triples of non-negative integers.  A non-empty
\* intersection of sets with bounds up to MaxVer + 1 has a member here.
Candidates ==
    {[major |-> a, minor |-> b, patch |-> c] :
        a \in 0..(MaxVer + 2), b \in 0..(MaxVer + 2), c \in 0..(MaxVer + 2)}

\* v is in the version set vs (a Span or a DisjointVersionSpan).
Member(vs, v) ==
    CASE vs.kind = "span" -> VersionSpan_contains(vs, v)
      [] vs.kind = "disjoint" -> DisjointVersionSpan_contains(vs, v)
      [] OTHER -> FALSE

\* Some concrete version is in the version set of every clause of S.
Satisfiable(S) ==
    \E v \in Candidates :
        \A c \in S : ~IsRaise(version_set(c.op, c.version))
                     /\ Member(version_set(c.op, c.version), v)

RECURSIVE Perms(_)
\* The orders in which the clauses of S can be iterated.
Perms(S) ==
    IF S = {} THEN {<<>>}
    ELSE UNION {{<<c>> \o o : o \in Perms(S \ {c})} : c \in S}

RECURSIVE FoldFrom(_, _)
\* The loop of is_consistent over the clauses in the order o, from acc.
FoldFrom(acc, o) ==
    IF o = <<>> THEN acc
    ELSE LET r == FoldStep(acc, Head(o))
         IN  IF IsRaise(r) THEN r ELSE FoldFrom(r, Tail(o))

Fold(o) == FoldFrom(VersionSet(VersionSpan_unbounded), o)

(***************************************************************************)
(* C1..C3: the verdict of one package against the clauses' version sets    *)
(***************************************************************************)
\* C1 - no false conflict: a package some concrete version of which lies in
\* the version set of every one of its clauses is never put on the broken
\* list, in whatever order its clauses were folded.
C1_NoFalseConflict ==
    \A n \in PackageNames : InBroken(n) => ~Satisfiable(specs[n])

\* C2 - no missed conflict: when check_validity completes and has not
\* reported a package, some triple of non-negative integers lies in the
\* version set of every one of the package's clauses.
C2_NoMissedConflict ==
    Completed => \A n \in PackageNames : InNames(n) /\ ~InBroken(n) => Satisfiable(specs[n])

\* C3 - the verdict is a function of the clause set: when the fold of a
\* package ends, every other iteration order of the same clauses gives the
\* same empty / non-empty result.
C3_OrderIrrelevant ==
    (pc = "fold" /\ todo = {}) =>
        \A o \in Perms(specs[names[k]]) :
            ~IsRaise(Fold(o)) => (is_empty(Fold(o)) <=> is_empty(joint_spec))

(***************************************************************************)
(* C4, C5: the driver on several packages                                  *)
(***************************************************************************)
\* The clauses that carry the name n in the argument list.
OwnClauses(n) == UNION {ps[j].specifier : j \in {j \in 1..Len(ps) : ps[j].name = n}}

\* The package is named in the conflict error that check_validity raises.
Reported(n) == pc = "done" /\ outcome = ConflictError /\ InBroken(n)

\* The fold of the package, in the order in which its clauses were
\* iterated, is the empty set.
FoldsToEmpty(n) == ~IsRaise(Fold(order[n])) /\ is_empty(Fold(order[n]))

\* C4 - batch reporting: check_validity ends only after it has examined
\* every package group; it returns normally iff no group folds to the empty
\* set, and otherwise raises the one conflict error, which lists exactly the
\* packages whose fold is empty.
C4_BatchReporting ==
    pc = "done" =>
        /\ \A n \in PackageNames : InNames(n) => Checked(n)
        /\ outcome = "returned" <=> \A n \in PackageNames : ~FoldsToEmpty(n)
        /\ outcome # "returned" =>
              /\ outcome = ConflictError
              /\ {n \in PackageNames : InBroken(n)} = {n \in PackageNames : FoldsToEmpty(n)}

\* C5 - package groups are independent: the clauses of all list entries of
\* a name are combined, and whether a package is reported is a verdict that
\* its own clauses give (in one of their iteration orders), whatever the
\* clauses of the other packages are; a name without a clause is never
\* reported.
C5_GroupsIndependent ==
    pc = "done" =>
        \A n \in PackageNames :
            /\ InNames(n) => specs[n] = OwnClauses(n)
            /\ LET results == {Fold(o) : o \in Perms(OwnClauses(n))}
               IN  (\A r \in results : ~IsRaise(r)) =>
                       \E r \in results : Reported(n) <=> is_empty(r)

(***************************************************************************)
(* C6..C10: what the operators mean, stated on release components          *)
(***************************************************************************)
\* A release as three components, a missing minor or patch being 0.
Key(rel) ==
    <<rel[1], IF Len(rel) >= 2 THEN rel[2] ELSE 0, IF Len(rel) >= 3 THEN rel[3] ELSE 0>>

\* The release with its last given component incremented, as three components.
BumpedKey(rel) == [Key(rel) EXCEPT ![Len(rel)] = @ + 1]

\* The components of a concrete version.
KeyOf(v) == <<v.major, v.minor, v.patch>>

\* Lexicographic order of three components.
LexLess(x, y) ==
    \/ x[1] < y[1]
    \/ x[1] = y[1] /\ x[2] < y[2]
    \/ x[1] = y[1] /\ x[2] = y[2] /\ x[3] < y[3]

LexLeq(x, y) == ~LexLess(y, x)

\* v lies in the half-open range [lo, hi) of components.
InRange(v, lo, hi) == LexLeq(lo, KeyOf(v)) /\ LexLess(KeyOf(v), hi)

\* The fold of the package under examination has visited every clause.
FoldEnded == pc = "fold" /\ todo = {}

\* The numbers written in a version text, in order: its release.
NumbersOf(s) ==
    LET nums == SelectSeq(s, IsNum)
    IN  [j \in 1..Len(nums) |-> nums[j].num]

\* C6 - for all A and B, a package whose clauses are exactly >A and <B is
\* put on the broken list iff bump(A) >= B in the order of triples, and a
\* package whose only clause is >A is never put on it.
C6_GreaterAndLess ==
    \A n \in PackageNames : Checked(n) =>
        \A gt \in specs[n] : gt.op = ">" =>
            /\ specs[n] = {gt} => ~InBroken(n)
            /\ \A lt \in specs[n] :
                  (lt.op = "<" /\ specs[n] = {gt, lt}) =>
                      (InBroken(n) <=> LexLeq(Key(NumbersOf(lt.version)),
                                              BumpedKey(NumbersOf(gt.version))))

\* The analogue of `>2.28.0` with `<2.10`: `>1.1.0` with `<1.1` has been
\* checked and found inconsistent.
C6_Witness ==
    /\ Completed
    /\ specs["a"] = {Clause(">", <<1, 1, 0>>, NoTail), Clause("<", <<1, 1>>, NoTail)}
    /\ Reported("a")

\* The prefix ranges [A, bump(A)) and [B, bump(B)) have a version in common.
PrefixRangesOverlap(A, B) ==
    \E v \in Candidates :
        InRange(v, Key(A), BumpedKey(A)) /\ InRange(v, Key(B), BumpedKey(B))

\* C7 - for all A and B, a package whose clauses are exactly ==A and ==B
\* (with or without a qualifier after the release) is put on the broken list
\* iff the prefix ranges [A, bump(A)) and [B, bump(B)) do not overlap, an
\* unset minor or patch counting as 0.
C7_TwoMatching ==
    \A n \in PackageNames : Checked(n) =>
        \A e1 \in specs[n], e2 \in specs[n] :
            (e1.op = "==" /\ e2.op = "==" /\ specs[n] = {e1, e2}) =>
                (InBroken(n) <=>
                    ~PrefixRangesOverlap(NumbersOf(e1.version), NumbersOf(e2.version)))

\* `==1.0.post1` with `==1.1.1` has been checked and found inconsistent.
C7_Witness ==
    /\ Completed
    /\ specs["a"] = {Clause("==", <<1, 0>>, PostRelease), Clause("==", <<1, 1, 1>>, NoTail)}
    /\ Reported("a")

\* C8 - for every X.Y.Z, the set of the single clause ~=X.Y.Z is the span
\* [X.Y.Z, X.(Y+1).0): after the fold of that clause the accumulator contains
\* exactly the versions from X.Y.Z up to, and excluding, X.(Y+1).0.
C8_CompatiblePatch ==
    FoldEnded =>
        \A c \in specs[names[k]] :
            (c.op = "~=" /\ specs[names[k]] = {c} /\ Len(NumbersOf(c.version)) = 3) =>
                LET r == NumbersOf(c.version)
                IN  /\ joint_spec.kind = "span"
                    /\ \A v \in Candidates :
                          Member(joint_spec, v) <=> InRange(v, Key(r), <<r[1], r[2] + 1, 0>>)

\* C9 - for every X.Y, the set of the single clause ~=X.Y contains exactly
\* the versions from X.Y up to, and excluding, the next major (X+1).0.0: no
\* version of a major greater than X.
C9_CompatibleMinor ==
    FoldEnded =>
        \A c \in specs[names[k]] :
            (c.op = "~=" /\ specs[names[k]] = {c} /\ Len(NumbersOf(c.version)) = 2) =>
                LET r == NumbersOf(c.version)
                IN  /\ joint_spec.kind = "span"
                    /\ \A v \in Candidates :
                          Member(joint_spec, v) <=> InRange(v, Key(r), <<r[1] + 1, 0, 0>>)

\* C10 - for every T, a package whose only clause is !=T is consistent, and
\* the set that results from folding the clause is the non-empty union of
\* (-inf, T) and [bump(T), +inf): it contains every version below T and
\* every version at or above bump(T), and no other.
C10_Excluding ==
    FoldEnded =>
        \A c \in specs[names[k]] :
            (c.op = "!=" /\ specs[names[k]] = {c}) =>
                LET r == NumbersOf(c.version)
                IN  /\ ~is_empty(joint_spec)
                    /\ \A v \in Candidates :
                          Member(joint_spec, v) <=>
                              (LexLess(KeyOf(v), Key(r)) \/ LexLeq(BumpedKey(r), KeyOf(v)))

(***************************************************************************)
(* The classes called directly: one call of bump, of merge_spans or of     *)
(* VersionSet.__and__, on arguments drawn from the values below.           *)
(***************************************************************************)
\* Largest component of the triples handed to bump.
MaxPart == 4

\* The valid triples of components up to n: a patch only with a minor.
Triples(n) ==
    {VersionTriple(a, None, None) : a \in 0..n}
    \cup {VersionTriple(a, b, None) : a \in 0..n, b \in 0..n}
    \cup {VersionTriple(a, b, c) : a \in 0..n, b \in 0..n, c \in 0..n}

\* The spans of single clauses, and the unbounded span a fold starts from.
ClauseSpans ==
    {VersionSet(VersionSpan_unbounded)}
    \cup {vs \in {version_set(c.op, c.version) : c \in RangeClauses} : vs.kind = "span"}

\* Version strings of `===` clauses: releases of one to three components,
\* with or without a post-release qualifier, and of four components.
FixedTexts ==
    {VersionString(r, t) : r \in Releases, t \in {NoTail, PostRelease}}
    \cup {VersionString(<<m, 0, 0, 0>>, NoTail) : m \in 0..MaxVer}

Fixeds == {VersionSet(FixedVersion(s)) : s \in FixedTexts}

\* The span of the clause `==r`.
MatchingSpan(r) == version_set("==", VersionString(r, NoTail))

\* Unions: those of `!=` clauses, those on a major version also with the
\* members in the other order; and the unions of two `==` spans, of a
\* one-component and of a two-component version, in either order.
Disjoints ==
    LET excluding == {version_set("!=", VersionString(r, NoTail)) : r \in Releases}
        matching == {<<MatchingSpan(A), MatchingSpan(B)>> :
                        A \in ReleasesOfLen(1), B \in ReleasesOfLen(2)}
    IN  excluding
        \cup {VersionSet(DisjointVersionSpan(<<d.spans[2], d.spans[1]>>)) :
                  d \in {version_set("!=", VersionString(r, NoTail)) : r \in ReleasesOfLen(1)}}
        \cup {VersionSet(DisjointVersionSpan(m)) : m \in matching}
        \cup {VersionSet(DisjointVersionSpan(<<m[2], m[1]>>)) : m \in matching}

\* check_validity has not been called.
InitCalls ==
    /\ ps = <<>>
    /\ pc = "idle"
    /\ i = 1
    /\ names = <<>>
    /\ specs = [n \in PackageNames |-> {}]
    /\ k = 1
    /\ todo = {}
    /\ joint_spec = VersionSet(VersionSpan_unbounded)
    /\ broken = <<>>
    /\ outcome = "running"
    /\ order = [n \in PackageNames |-> <<>>]
    /\ call = NoCall
    /\ NoSession

\* t.bump(), and the span version_set builds for `==t`.
CallBump ==
    /\ call = NoCall
    /\ \E t \in Triples(MaxPart) :
         call' = [fn |-> "bump", self |-> t, ret |-> bump(t),
                  span |-> SpanOf(t, bump(t))]
    /\ UNCHANGED <<checkVars, sessionVars>>

SpecBump == InitCalls /\ [][CallBump]_vars

\* merge_spans(a, b)
CallMergeSpans ==
    /\ call = NoCall
    /\ \E a \in ClauseSpans, b \in ClauseSpans :
         call' = [fn |-> "merge_spans", a |-> a, b |-> b, ret |-> merge_spans(a, b)]
    /\ UNCHANGED <<checkVars, sessionVars>>

SpecMerge == InitCalls /\ [][CallMergeSpans]_vars

\* self & other, for self in A and other in B.
CallAnd(A, B) ==
    /\ call = NoCall
    /\ \E self \in A, other \in B :
         call' = [fn |-> "__and__", self |-> self, other |-> other,
                  ret |-> And(self, other)]
    /\ UNCHANGED <<checkVars, sessionVars>>

AndFixedFixed == CallAnd(Fixeds, Fixeds)

SpecFixed == InitCalls /\ [][AndFixedFixed]_vars

\* Span & Disjoint and Disjoint & Span
AndSpanDisjoint == CallAnd(ClauseSpans, Disjoints) \/ CallAnd(Disjoints, ClauseSpans)

SpecSpanDisjoint == InitCalls /\ [][AndSpanDisjoint]_vars

AndDisjointDisjoint == CallAnd(Disjoints, Disjoints)

SpecDisjoint == InitCalls /\ [][AndDisjointDisjoint]_vars

\* Fixed & (Span | Disjoint) and (Span | Disjoint) & Fixed
AndFixedRange ==
    \/ CallAnd(Fixeds, ClauseSpans \cup Disjoints)
    \/ CallAnd(ClauseSpans \cup Disjoints, Fixeds)

SpecFixedRange == InitCalls /\ [][AndFixedRange]_vars

(***************************************************************************)
(* C11..C13: exact-match versions, bump, commutativity of merge_spans      *)
(***************************************************************************)
\* The clause `===text`.
ExactClause(text) == [op |-> "===", version |-> text]

PaddedKey(t) == <<t.major, OrZero(t.minor), OrZero(t.patch)>>

\* C12 - for every valid triple T, bump(T) is a triple strictly greater than
\* T, by compare and in the lexicographic order of the components with unset
\* ones as 0, and the span [T, bump(T)) of `==T` is constructed, contains T
\* and does not contain bump(T).
C12_BumpIsGreater ==
    call.fn = "bump" =>
        /\ ~IsRaise(call.ret)
        /\ compare(call.ret, call.self) > 0
        /\ LexLess(PaddedKey(call.self), PaddedKey(call.ret))
        /\ ~IsRaise(call.span)
        /\ VersionSpan_contains(call.span, call.self)
        /\ ~VersionSpan_contains(call.span, call.ret)

\* bump of 1.1.4 is 1.1.5, and [1.1.4, 1.1.5) has been built.
C12_Witness ==
    /\ call.fn = "bump"
    /\ call.self = [major |-> 1, minor |-> 1, patch |-> MaxPart]
    /\ call.ret = [major |-> 1, minor |-> 1, patch |-> MaxPart + 1]
    /\ call.span.kind = "span"

\* Concrete versions up to the largest component of a bound, MaxVer + 1: a
\* span that contains a version at all contains one of these.
Versions ==
    {[major |-> a, minor |-> b, patch |-> c] :
        a \in 0..(MaxVer + 1), b \in 0..(MaxVer + 1), c \in 0..(MaxVer + 1)}

\* Some concrete version lies in the span.
NonEmptySpan(s) == \E v \in Versions : VersionSpan_contains(s, v)

\* C13 - for all non-empty spans a and b, merge_spans(a, b) and
\* merge_spans(b, a) are the same value: the same fields, or both None.
C13_MergeSpansCommutes ==
    (call.fn = "merge_spans" /\ NonEmptySpan(call.a) /\ NonEmptySpan(call.b)) =>
        call.ret = merge_spans(call.b, call.a)

(***************************************************************************)
(* Inputs of two list entries for one package: any parseable clause        *)
(* followed by a clause on a version of one or two components.             *)
(***************************************************************************)
ExactClauses == {ExactClause(VersionString(r, NoTail)) : r \in Releases}

ParseableClauses == RangeClauses \cup ExactClauses

ShortClauses ==
    {Clause(op, r, NoTail) : op \in VERSION_OPS \ {"~="},
                              r \in ReleasesOfLen(1) \cup ReleasesOfLen(2)}
    \cup {Clause("~=", r, NoTail) : r \in ReleasesOfLen(2)}

PairInputs ==
    {<<Requirement("a", {c1}), Requirement("a", {c2})>> :
        c1 \in ParseableClauses, c2 \in ShortClauses}

InitPair == InitWith(PairInputs)

SpecPair == InitPair /\ [][Next]_vars

(***************************************************************************)
(* C14: no empty span                                                      *)
(***************************************************************************)
\* The spans of a version set: itself, or the members of a union.
SpansOf(vs) ==
    IF vs.kind = "span" THEN {vs}
    ELSE IF vs.kind = "disjoint" THEN {vs.spans[j] : j \in DOMAIN vs.spans}
    ELSE {}

\* The spans that exist in the state: those of the accumulator and of the
\* version sets of the clauses folded so far.
LiveSpans ==
    SpansOf(joint_spec)
    \cup UNION {UNION {SpansOf(version_set(order[n][j].op, order[n][j].version)) :
                           j \in DOMAIN order[n]} : n \in PackageNames}

Bounded(bound) == bound.version # NoVersion

\* C14 - every span that exists in a state of a check, standalone or member
\* of a union, has lower < upper (for two bounded sides: the lower triple is
\* before the upper one, unset components counting as 0), and constructing a
\* span from a bounded lower and a bounded upper bound of these spans with
\* upper <= lower raises.
C14_NoEmptySpan ==
    /\ \A s \in LiveSpans :
          /\ LowerBound_lt(s.lower, s.upper)
          /\ (Bounded(s.lower) /\ Bounded(s.upper)) =>
                 LexLess(PaddedKey(s.lower.version), PaddedKey(s.upper.version))
    /\ \A a \in LiveSpans, b \in LiveSpans :
          (Bounded(a.lower) /\ Bounded(b.upper)
           /\ LexLeq(PaddedKey(b.upper.version), PaddedKey(a.lower.version))) =>
              IsRaise(VersionSpan(a.lower, b.upper))

\* `>=1` and `!=1` have been folded: the first member of the union of `!=1`
\* has the upper bound 1, which is not above the lower bound 1 of `>=1`.
C14_Witness ==
    /\ FoldEnded
    /\ specs["a"] = {Clause(">=", <<1>>, NoTail), Clause("!=", <<1>>, NoTail)}
    /\ \E a \in LiveSpans, b \in LiveSpans :
          Bounded(a.lower) /\ Bounded(b.upper) /\ compare(b.upper.version, a.lower.version) <= 0

(***************************************************************************)
(* C16: the invariants of the data model cannot be violated from the input *)
(***************************************************************************)
\* The errors of VersionTriple.__post_init__ and VersionSpan.__post_init__.
InvariantErrors ==
    {"AssertionError: minor version must be set if patch version is set",
     "Exception: version span must be non-empty"}

\* C16 - on parseable clauses no step of check_validity raises the error of
\* a patch without minor or the error of an empty span, and for every lower
\* and upper bound of the spans at hand, bounded or not, the test
\* `lower < upper` of merge_spans holds exactly when the constructor accepts
\* the two bounds.
C16_InvariantsUnreachable ==
    /\ outcome \notin InvariantErrors
    /\ \A a \in LiveSpans, b \in LiveSpans :
          LowerBound_lt(a.lower, b.upper) <=> ~IsRaise(VersionSpan(a.lower, b.upper))

\* `>=1` with `<1.0` has been folded: the bounds touch, the test of
\* merge_spans has refused them, and nothing was raised.
C16_Witness ==
    /\ FoldEnded
    /\ specs["a"] = {Clause(">=", <<1>>, NoTail), Clause("<", <<1, 0>>, NoTail)}
    /\ is_empty(joint_spec)
    /\ outcome = "running"
    /\ \E a \in LiveSpans, b \in LiveSpans : ~LowerBound_lt(a.lower, b.upper)

(***************************************************************************)
(* DataprocSparkSession (session.py): getOrCreate and stop against the     *)
(* Dataproc service.  What the service answers to a call is an input of    *)
(* the action.  A session id is a number; the uuid the service gives to a  *)
(* session is modelled by the number of the session, and a session object  *)
(* by the uuid it is connected to.                                         *)
(***************************************************************************)
\* Number of session ids that generate_dataproc_session_id can return.
MaxSessions == 3
\* Largest number of get_session polls of one terminate_s8s_session.
MaxPolls == 2

SessionIds == 1..MaxSessions

\* session_response.uuid of the session with the id.
UuidOf(id) == id

\* A function has returned without a value.
Returned == [returned |-> TRUE]

\* Mutant of TerminalStates: TERMINATING does not end the polling loop.
TerminalStates_without_TERMINATING == {"TERMINATED", "FAILED"}

\* Session.State values that end the polling loop.
TerminalStates == {"TERMINATING", "TERMINATED", "FAILED"}

\* Exceptions of the service client: those terminate_s8s_session catches,
\* and one it does not.
ApiErrors == {"NotFound", "FailedPrecondition", "Aborted", "PermissionDenied"}

\* Mutant of CaughtErrors: Aborted is not caught.
CaughtErrors_without_Aborted == {"NotFound", "FailedPrecondition"}

\* `except NotFound` and `except (FailedPrecondition, Aborted)`
CaughtErrors == {"NotFound", "FailedPrecondition", "Aborted"}

\* What terminate_session answers.
TerminateOutcomes == {"ok"} \cup ApiErrors

\* What the polls of get_session answer, up to the answer that ends the
\* loop: some ACTIVE states, then a terminal state or an exception.
PollRuns ==
    LET ends == {<<x>> : x \in TerminalStates \cup ApiErrors}
    IN  UNION {{[j \in 1..n |-> "ACTIVE"] \o e : e \in ends} : n \in 0..(MaxPolls - 1)}

RECURSIVE PollUntilTerminated(_, _)
\* The while loop of terminate_s8s_session: the last state read, and the
\* exception get_session raised, if any.
PollUntilTerminated(last, polls) ==
    IF last \in TerminalStates \/ polls = <<>>
    THEN [state |-> last, raised |-> "none"]
    ELSE IF Head(polls) \in ApiErrors THEN [state |-> last, raised |-> Head(polls)]
    ELSE PollUntilTerminated(Head(polls), Tail(polls))

terminate_s8s_session(terminate_session, polls) ==
    LET try == IF terminate_session # "ok"
               THEN [state |-> "None", raised |-> terminate_session]
               ELSE PollUntilTerminated("ACTIVE", polls)
    IN  IF try.raised # "none" /\ try.raised \notin CaughtErrors THEN Raise(try.raised)
        ELSE IF try.state = "FAILED"
             THEN Raise("RuntimeError: Dataproc Session termination failed")
        ELSE Returned

\* self.stop(): the class attributes it leaves, and how it ends.
stop(self, terminate_session, polls) ==
    LET r == IF active_s8s_session_id # None
             THEN terminate_s8s_session(terminate_session, polls)
             ELSE Returned
    IN  IF IsRaise(r)
        THEN [id |-> active_s8s_session_id, uuid |-> active_s8s_session_uuid,
              default |-> default_session, ret |-> r]
        ELSE [id |-> None,
              uuid |-> IF active_s8s_session_id # None THEN None
                       ELSE active_s8s_session_uuid,
              default |-> IF self = default_session THEN None ELSE default_session,
              ret |-> Returned]

\* The answers of terminate_session to draw: none when it is not called.
TerminateAnswers(called) == IF called THEN TerminateOutcomes ELSE {"not called"}

\* The answers of get_session to draw: none when terminate_session raised
\* or was not called.
PollAnswers(terminate_session) == IF terminate_session = "ok" THEN PollRuns ELSE {<<>>}

\* session.stop() called on a session object that getOrCreate has returned.
Stop ==
    \E self \in sessions,
       terminate_session \in TerminateAnswers(active_s8s_session_id # None) :
      \E polls \in PollAnswers(terminate_session) :
        LET r == stop(self, terminate_session, polls)
        IN  /\ active_s8s_session_id' = r.id
            /\ active_s8s_session_uuid' = r.uuid
            /\ default_session' = r.default
            /\ call' = [fn |-> "stop", self |-> self,
                        terminate_session |-> IF active_s8s_session_id # None
                                              THEN terminate_session ELSE "not called",
                        ret |-> r.ret]
            /\ UNCHANGED <<sessions, created, pbarVars, terminateVars, checkVars>>

\* What create_session, and then operation.result, answer (each is drawn
\* only where the call is made).
CreateOutcomes == {"ok", "InvalidArgument", "PermissionDenied", "Unavailable"}

\* `except (InvalidArgument, PermissionDenied)`
ConnectErrors == {"InvalidArgument", "PermissionDenied"}

\* Mutant of create_failed: the class attribute keeps the session id.
create_failed_keeps_id(session_id, e, started) ==
    [id |-> session_id, event |-> TRUE,
     thread |-> IF started THEN "finished" ELSE "created",
     ret |-> Raise(IF e \in ConnectErrors THEN "DataprocSparkConnectException"
                   ELSE "RuntimeError: Error while creating Dataproc Session")]

\* The except clauses and the finally clause of __create for the exception
\* e: the event is set, the thread is joined if it is alive (it was started
\* if create_session had returned), the class attribute is reset.
create_failed(session_id, e, started) ==
    [id |-> None, event |-> TRUE,
     thread |-> IF started THEN "finished" ELSE "created",
     ret |-> Raise(IF e \in ConnectErrors THEN "DataprocSparkConnectException"
                   ELSE "RuntimeError: Error while creating Dataproc Session")]

\* The try statement of __create: create_session, the start of the thread,
\* operation.result, the event set and the thread joined.
create(session_id, create_session, result) ==
    IF create_session # "ok" THEN create_failed(session_id, create_session, FALSE)
    ELSE IF result # "ok" THEN create_failed(session_id, result, TRUE)
    ELSE [id |-> session_id, event |-> TRUE, thread |-> "finished",
          ret |-> [session |-> UuidOf(session_id)]]

\* Builder.getOrCreate(): _get_exiting_active_session, then __create if no
\* session is reused.  `active` tells whether the service reports the
\* current session as ACTIVE or CREATING; session_id is the id generated for
\* a new session, one that has not been generated before.
GetOrCreate ==
    \E active \in BOOLEAN :
      LET s8s_session_id == active_s8s_session_id
          session == default_session
          reuse == s8s_session_id # None /\ active
      IN
      \E terminate_session \in
            TerminateAnswers(~reuse /\ session # None /\ s8s_session_id # None) :
      \E polls \in PollAnswers(terminate_session) :
      LET stopped == IF session # None THEN stop(session, terminate_session, polls)
                     ELSE [id |-> active_s8s_session_id,
                           uuid |-> active_s8s_session_uuid,
                           default |-> default_session, ret |-> Returned]
          creating == ~reuse /\ ~IsRaise(stopped.ret)
      IN
      \E session_id \in IF creating THEN SessionIds \ created ELSE {None},
         create_session \in IF creating THEN CreateOutcomes ELSE {"not called"} :
      \E result \in IF create_session = "ok" THEN CreateOutcomes ELSE {"not called"} :
        LET c == create(session_id, create_session, result)
        IN  IF reuse
            THEN /\ active_s8s_session_uuid' =
                        IF session = None THEN UuidOf(s8s_session_id)
                        ELSE active_s8s_session_uuid
                 /\ default_session' =
                        IF session = None THEN UuidOf(s8s_session_id) ELSE session
                 /\ sessions' = sessions \cup {default_session'}
                 /\ call' = [fn |-> "getOrCreate", create |-> "not called",
                             ret |-> [session |-> default_session']]
                 /\ UNCHANGED <<active_s8s_session_id, created, pbarVars, terminateVars,
                                checkVars>>
            ELSE IF IsRaise(stopped.ret)
            THEN /\ call' = [fn |-> "getOrCreate", create |-> "not called",
                             ret |-> stopped.ret]
                 /\ UNCHANGED <<sessionVars, checkVars>>
            ELSE /\ created' = created \cup {session_id}
                 /\ active_s8s_session_id' = c.id
                 /\ stop_create_session_pbar_event' = c.event
                 /\ create_session_pbar_thread' = c.thread
                 /\ call' = [fn |-> "getOrCreate",
                             create |-> IF create_session # "ok" THEN create_session
                                        ELSE result,
                             ret |-> c.ret]
                 /\ IF IsRaise(c.ret)
                    THEN /\ active_s8s_session_uuid' = stopped.uuid
                         /\ default_session' = stopped.default
                         /\ UNCHANGED sessions
                    ELSE /\ active_s8s_session_uuid' = UuidOf(session_id)
                         /\ default_session' = UuidOf(session_id)
                         /\ sessions' = sessions \cup {UuidOf(session_id)}
                 /\ UNCHANGED <<terminateVars, checkVars>>

NextSession == GetOrCreate \/ Stop

SpecSession == InitCalls /\ [][NextSession]_vars

(***************************************************************************)
(* C15: stop() when the service refuses the termination                    *)
(***************************************************************************)
\* C15 - whenever stop() has called terminate_session and the call was
\* answered by NotFound, FailedPrecondition or Aborted, stop() has returned
\* without raising and the class-level active session uuid and id are None.
C15_StopAfterRefusedTerminate ==
    (call.fn = "stop"
     /\ call.terminate_session \in {"NotFound", "FailedPrecondition", "Aborted"}) =>
        /\ call.ret = Returned
        /\ active_s8s_session_uuid = None
        /\ active_s8s_session_id = None

\* stop() of a session has returned after terminate_session raised Aborted.
C15_Witness ==
    /\ call.fn = "stop"
    /\ call.terminate_session = "Aborted"
    /\ call.self \in {UuidOf(id) : id \in created}
    /\ call.ret = Returned
    /\ active_s8s_session_id = None

(***************************************************************************)
(* C17..C20: the cases of VersionSet.__and__                               *)
(***************************************************************************)
\* The concrete version v lies in the span, by the components of its
\* bounds: at or after the lower one and before the upper one, unset
\* components counting as 0.
InSpan(s, v) ==
    /\ Bounded(s.lower) => LexLeq(PaddedKey(s.lower.version), KeyOf(v))
    /\ Bounded(s.upper) => LexLess(KeyOf(v), PaddedKey(s.upper.version))

\* C17 - for all non-empty spans a and b: merge_spans(a, b) is None iff no
\* version lies in both; otherwise it is a span that contains a version iff
\* both a and b contain it, its lower bound is one of the two lower bounds
\* and not below either, and its upper bound is one of the two upper bounds
\* and not above either.
C17_SpanAndSpanExact ==
    (call.fn = "merge_spans" /\ NonEmptySpan(call.a) /\ NonEmptySpan(call.b)) =>
        LET a == call.a
            b == call.b
            r == call.ret
        IN  /\ r = NoSpan <=> ~\E v \in Versions : InSpan(a, v) /\ InSpan(b, v)
            /\ r # NoSpan =>
                  /\ r.kind = "span"
                  /\ \A v \in Versions :
                        VersionSpan_contains(r, v) <=> (InSpan(a, v) /\ InSpan(b, v))
                  /\ r.lower \in {a.lower, b.lower}
                  /\ LowerBound_compare(r.lower, a.lower) >= 0
                  /\ LowerBound_compare(r.lower, b.lower) >= 0
                  /\ r.upper \in {a.upper, b.upper}
                  /\ UpperBound_compare(r.upper, a.upper) <= 0
                  /\ UpperBound_compare(r.upper, b.upper) <= 0

\* Two bounded spans overlap in part: the merge has the lower bound of one
\* and the upper bound of the other.
C17_Witness ==
    /\ call.fn = "merge_spans"
    /\ Bounded(call.a.lower) /\ Bounded(call.a.upper)
    /\ Bounded(call.b.lower) /\ Bounded(call.b.upper)
    /\ call.ret # NoSpan
    /\ call.ret.lower = call.b.lower /\ call.ret.lower # call.a.lower
    /\ call.ret.upper = call.a.upper /\ call.ret.upper # call.b.upper

\* Some concrete version lies in both spans.
Overlap(s, t) == \E v \in Versions : InSpan(s, v) /\ InSpan(t, v)

\* C18 - Span AND Disjoint, in either operand order: the result is empty iff
\* the merge of the span with every member is None, and otherwise it is the
\* single span that merge_spans gives for the span and the first member, in
\* tuple order, whose merge is not None; it contains a version iff the span
\* and that one member contain it, whatever later members contain.  When the
\* span and the members are non-empty, the members whose merge is not None
\* are those that have a version in common with the span.
C18_FirstOverlappingMember ==
    (call.fn = "__and__" /\ {call.self.kind, call.other.kind} = {"span", "disjoint"}) =>
        LET s == IF call.self.kind = "span" THEN call.self ELSE call.other
            d == IF call.self.kind = "span" THEN call.other ELSE call.self
            hits == {j \in DOMAIN d.spans : merge_spans(s, d.spans[j]) # NoSpan}
            first == CHOOSE j \in hits : \A h \in hits : j <= h
        IN  /\ hits = {} <=> call.ret = [kind |-> "empty"]
            /\ hits # {} =>
                  /\ call.ret.kind = "span"
                  /\ call.ret = merge_spans(s, d.spans[first])
                  /\ \A v \in Versions :
                        VersionSpan_contains(call.ret, v)
                            <=> (InSpan(s, v) /\ InSpan(d.spans[first], v))
            /\ (NonEmptySpan(s) /\ \A j \in DOMAIN d.spans : NonEmptySpan(d.spans[j])) =>
                  \A j \in DOMAIN d.spans : j \in hits <=> Overlap(s, d.spans[j])

\* A union and a span, in this order: both members of the union overlap the
\* span, and a version of the span and the second member is not in the
\* result.
C18_Witness ==
    /\ call.fn = "__and__"
    /\ call.self.kind = "disjoint"
    /\ call.other.kind = "span"
    /\ Overlap(call.other, call.self.spans[1])
    /\ call.ret.kind = "span"
    /\ \E v \in Versions :
          /\ InSpan(call.other, v) /\ InSpan(call.self.spans[2], v)
          /\ ~VersionSpan_contains(call.ret, v)

\* C19 - Disjoint AND Disjoint: the result is empty iff the merge of every
\* member of a with every member of b is None (never a union without
\* members); otherwise it is a union with one member for every pair whose
\* merge is not None, and it contains a version iff some member of a and
\* some member of b both contain it.  When all members are non-empty, the
\* pairs whose merge is not None are those with a version in common.
C19_PairwiseMerge ==
    (call.fn = "__and__" /\ call.self.kind = "disjoint" /\ call.other.kind = "disjoint") =>
        LET a == call.self.spans
            b == call.other.spans
            pairs == (DOMAIN a) \X (DOMAIN b)
            hits == {p \in pairs : merge_spans(a[p[1]], b[p[2]]) # NoSpan}
        IN  /\ hits = {} <=> call.ret = [kind |-> "empty"]
            /\ hits # {} =>
                  /\ call.ret.kind = "disjoint"
                  /\ Len(call.ret.spans) = Cardinality(hits)
            /\ \A v \in Versions :
                  Member(call.ret, v)
                      <=> \E p \in pairs : InSpan(a[p[1]], v) /\ InSpan(b[p[2]], v)
            /\ ((\A j \in DOMAIN a : NonEmptySpan(a[j])) /\ (\A j \in DOMAIN b : NonEmptySpan(b[j]))) =>
                  \A p \in pairs : p \in hits <=> Overlap(a[p[1]], b[p[2]])

\* Two unions of `!=` clauses: all four pairs of members have been merged,
\* and three of them are kept.
C19_Witness ==
    /\ call.fn = "__and__"
    /\ call.self = version_set("!=", VersionString(<<0, 1>>, NoTail))
    /\ call.other = version_set("!=", VersionString(<<1>>, NoTail))
    /\ call.ret.kind = "disjoint"
    /\ Len(call.ret.spans) = 3

\* The concrete version that a version text stands for: its first three
\* release components, a missing one counting as 0.
LeadingTriple(text) ==
    LET key == Key(NumbersOf(text))
    IN  [major |-> key[1], minor |-> key[2], patch |-> key[3]]

\* C20 - Fixed(f) AND S, for S a span or a union and in either operand
\* order, is Fixed(f) when S (some member of S, for a union) contains the
\* triple of f, and is empty otherwise.
C20_FixedAndRange ==
    (call.fn = "__and__"
     /\ \/ call.self.kind = "fixed" /\ call.other.kind \in {"span", "disjoint"}
        \/ call.other.kind = "fixed" /\ call.self.kind \in {"span", "disjoint"}) =>
        LET f == IF call.self.kind = "fixed" THEN call.self ELSE call.other
            S == IF call.self.kind = "fixed" THEN call.other ELSE call.self
            t == LeadingTriple(f.version)
            inS == IF S.kind = "span" THEN InSpan(S, t)
                   ELSE \E j \in DOMAIN S.spans : InSpan(S.spans[j], t)
        IN  call.ret = IF inS THEN f ELSE [kind |-> "empty"]

(***************************************************************************)
(* C21: the empty set in an intersection                                   *)
(***************************************************************************)
\* The version sets of every payload: empty, Fixed, Span and Disjoint.
AllSets == {VersionSet_empty} \cup Fixeds \cup ClauseSpans \cup Disjoints

\* empty & x and x & empty, called directly.
AndEmpty ==
    /\ pc = "idle"
    /\ \/ CallAnd({VersionSet_empty}, AllSets)
       \/ CallAnd(AllSets, {VersionSet_empty})

\* A lower or an upper bound on a major version.
MajorBounds == {Clause(op, <<m>>, NoTail) : op \in {">=", "<"}, m \in 0..MaxVer}

\* Three list entries for one package: two bounds on a major version, which
\* may exclude each other, and any clause.
TripleInputs ==
    {<<Requirement("a", {c1}), Requirement("a", {c2}), Requirement("a", {c3})>> :
        c1 \in MajorBounds, c2 \in MajorBounds,
        c3 \in ParseableClauses \cup WildcardClauses}

\* Either check_validity runs on three entries, or __and__ is called
\* directly with an empty operand.
InitEmpty == InitWith(TripleInputs) \/ InitCalls

NextEmpty == Next \/ AndEmpty

SpecEmpty == InitEmpty /\ [][NextEmpty]_vars

\* C21 - empty AND x and x AND empty are empty for every version set x, of
\* whatever payload; and in a fold, once the accumulator is empty, every
\* further step of the fold leaves it empty.
C21_EmptyAbsorbs ==
    /\ []((call.fn = "__and__" /\ (call.self.kind = "empty" \/ call.other.kind = "empty"))
            => call.ret = [kind |-> "empty"])
    /\ [][(pc = "fold" /\ joint_spec.kind = "empty") => joint_spec'.kind = "empty"]_vars

\* `>=1` and `<1` have emptied the accumulator, and a third clause has been
\* folded into the empty accumulator.
C21_Witness ==
    /\ pc = "fold"
    /\ Len(order["a"]) = 3
    /\ is_empty(Fold(SubSeq(order["a"], 1, 2)))
    /\ order["a"][3] \notin MajorBounds
    /\ is_empty(joint_spec)

(***************************************************************************)
(* C22: the cases of __and__ cover every pair of payloads                  *)
(***************************************************************************)
\* self & other for version sets of any two payloads.
AndAny == CallAnd(AllSets, AllSets)

SpecAnd == InitCalls /\ [][AndAny]_vars

PayloadKinds == {"empty", "fixed", "span", "disjoint"}

\* C22 - for every pair of version sets whose payloads are each empty, a
\* FixedVersion, a VersionSpan or a DisjointVersionSpan, __and__ does not
\* raise the assertion 'invalid version set pair': it returns a version set,
\* or an exception leaves the case of a FixedVersion with a span or a union,
\* where the version string is parsed.
C22_DispatchExhaustive ==
    call.fn = "__and__" =>
        /\ call.ret # [raise |-> "AssertionError: invalid version set pair"]
        /\ IF "raise" \in DOMAIN call.ret
           THEN {"fixed"} \subseteq {call.self.kind, call.other.kind}
                /\ {call.self.kind, call.other.kind} \cap {"span", "disjoint"} # {}
           ELSE call.ret.kind \in PayloadKinds

\* A union and a Fixed, the last pair with a Fixed that the match lists:
\* the Fixed operand is returned.
C22_Witness ==
    /\ call.fn = "__and__"
    /\ call.self.kind = "disjoint"
    /\ call.other.kind = "fixed"
    /\ call.ret = call.other

(***************************************************************************)
(* C23: the table of version_set                                           *)
(***************************************************************************)
\* Version strings that end in ".*".
WildcardTexts ==
    {VersionString(r, Wildcard) : r \in ReleasesOfLen(1) \cup ReleasesOfLen(2)}

\* The version strings of the calls: releases of one to four components,
\* with a post-release qualifier, with a wildcard.
VersionTexts == FixedTexts \cup WildcardTexts

\* version_set(op, version)
CallVersionSet ==
    /\ call = NoCall
    /\ \E op \in VERSION_OPS, version \in VersionTexts :
         call' = [fn |-> "version_set", op |-> op, version |-> version,
                  ret |-> version_set(op, version)]
    /\ UNCHANGED <<checkVars, sessionVars>>

SpecVersionSet == InitCalls /\ [][CallVersionSet]_vars

\* Triples, with or without minor and patch, up to a component beyond every
\* bound of the sets.
ProbeTriples == Triples(MaxVer + 2)

\* v is before w: lexicographic on (major, minor or 0, patch or 0).
Before(v, w) == LexLess(PaddedKey(v), PaddedKey(w))

\* C23 - for every clause whose version parses to a triple T: version_set
\* returns a set, and a triple v is in it iff T <= v < bump(T) for `==`,
\* v < bump(T) for `<=`, T <= v for `>=`, v < T for `<`, bump(T) <= v for
\* `>`, and v < T or bump(T) <= v for `!=`, which is a union of two spans.
C23_OperatorTable ==
    (call.fn = "version_set"
     /\ call.op \in {"==", "<=", ">=", "<", ">", "!="}
     /\ "raise" \notin DOMAIN parse(call.version)) =>
        LET T == parse(call.version)
            B == bump(T)
            Listed(v) ==
                CASE call.op = "==" -> ~Before(v, T) /\ Before(v, B)
                  [] call.op = "<=" -> Before(v, B)
                  [] call.op = ">=" -> ~Before(v, T)
                  [] call.op = "<"  -> Before(v, T)
                  [] call.op = ">"  -> ~Before(v, B)
                  [] call.op = "!=" -> Before(v, T) \/ ~Before(v, B)
        IN  /\ "raise" \notin DOMAIN call.ret
            /\ call.ret.kind = IF call.op = "!=" THEN "disjoint" ELSE "span"
            /\ call.op = "!=" => Len(call.ret.spans) = 2
            /\ \A v \in ProbeTriples : Member(call.ret, v) <=> Listed(v)

\* `>1.0.post1` is [1.1, +inf): 1.0.1 is not in it and 1.1 is.
C23_Witness ==
    /\ call.fn = "version_set"
    /\ call.op = ">"
    /\ call.version = VersionString(<<1, 0>>, PostRelease)
    /\ call.ret.kind = "span"
    /\ ~Member(call.ret, [major |-> 1, minor |-> 0, patch |-> 1])
    /\ Member(call.ret, [major |-> 1, minor |-> 1, patch |-> None])

(***************************************************************************)
(* C24: VersionTriple.compare                                              *)
(***************************************************************************)
\* self.compare(other) on valid triples.
CallCompare ==
    /\ call = NoCall
    /\ \E self \in Triples(MaxVer + 1), other \in Triples(MaxVer + 1) :
         call' = [fn |-> "compare", self |-> self, other |-> other,
                  ret |-> compare(self, other)]
    /\ UNCHANGED <<checkVars, sessionVars>>

SpecCompare == InitCalls /\ [][CallCompare]_vars

\* The three-way comparison of two sequences of three components.
ThreeWay(x, y) == IF LexLess(x, y) THEN -1 ELSE IF LexLess(y, x) THEN 1 ELSE 0

Sign(n) == IF n < 0 THEN -1 ELSE IF n > 0 THEN 1 ELSE 0

\* C24 as stated - compare returns -1, 0 or 1, the three-way lexicographic
\* comparison of (major, minor or 0, patch or 0), and 0 for two triples that
\* differ only in whether minor or patch is given.
C24_CompareIsThreeWay ==
    call.fn = "compare" =>
        /\ call.ret \in {-1, 0, 1}
        /\ call.ret = ThreeWay(PaddedKey(call.self), PaddedKey(call.other))
        /\ PaddedKey(call.self) = PaddedKey(call.other) => call.ret = 0

\* C24 amended - compare returns an integer whose sign is the three-way
\* lexicographic comparison of (major, minor or 0, patch or 0): the
\* difference at the first component in which the two differ, which need
\* not be -1 or 1; it returns 0 for two triples that differ only in whether
\* minor or patch is given.
C24_CompareSign ==
    call.fn = "compare" =>
        LET x == PaddedKey(call.self)
            y == PaddedKey(call.other)
            differing == {j \in 1..3 : x[j] # y[j]}
            first == CHOOSE j \in differing : \A h \in differing : j <= h
        IN  /\ Sign(call.ret) = ThreeWay(x, y)
            /\ differing # {} => call.ret = x[first] - y[first]
            /\ x = y => call.ret = 0

\* 2 against 0.1: the result is 2.
C24_Witness ==
    /\ call.fn = "compare"
    /\ call.self = [major |-> 2, minor |-> None, patch |-> None]
    /\ call.other = [major |-> 0, minor |-> 1, patch |-> None]
    /\ call.ret = 2

(***************************************************************************)
(* C25, C26: VersionTriple.parse                                           *)
(***************************************************************************)
\* Largest number of release components of the strings handed to parse.
MaxComponents == 5

RECURSIVE ReleasesUpTo(_)
\* Releases of one to n components.
ReleasesUpTo(n) == IF n = 0 THEN {} ELSE ReleasesOfLen(n) \cup ReleasesUpTo(n - 1)

\* The strings handed to parse: releases of one to MaxComponents components,
\* with or without a post-release qualifier, and releases of one to three
\* components followed by ".*".
ParseTexts ==
    {VersionString(r, t) : r \in ReleasesUpTo(MaxComponents), t \in {NoTail, PostRelease}}
    \cup {VersionString(r, Wildcard) : r \in Releases}

\* VersionTriple.parse(s), and the set version_set gives for `==s`.
CallParse ==
    /\ call = NoCall
    /\ \E s \in ParseTexts :
         call' = [fn |-> "parse", s |-> s, ret |-> parse(s),
                  matching |-> version_set("==", s)]
    /\ UNCHANGED <<checkVars, sessionVars>>

SpecParse == InitCalls /\ [][CallParse]_vars

\* The triple of the first three components of a release, the components
\* that the release does not have being unset.
LeadingOf(rel) ==
    [major |-> rel[1],
     minor |-> IF Len(rel) >= 2 THEN rel[2] ELSE None,
     patch |-> IF Len(rel) >= 3 THEN rel[3] ELSE None]

\* C25 - parse of a string that ends in ".*" returns the triple of the
\* release components before the suffix (`1.2.*` gives (1, 2)), and the
\* clause `==` with that string is translated to a span.
C25_WildcardStripped ==
    (call.fn = "parse" /\ EndsWithWildcard(call.s)) =>
        /\ call.ret = LeadingOf(NumbersOf(call.s))
        /\ call.matching.kind = "span"

\* C26 - parse of a version of one, two or three release components returns
\* the triple with exactly those components set, and parse of a version of
\* four or more release components returns the triple of the first three;
\* it does not raise.
C26_AnyLength ==
    (call.fn = "parse" /\ ~EndsWithWildcard(call.s)) =>
        call.ret = LeadingOf(NumbersOf(call.s))

(***************************************************************************)
(* C27: the invariant of VersionTriple                                     *)
(***************************************************************************)
\* A field of a triple: a component up to n, or None.
Fields(n) == (0..n) \cup {None}

\* VersionTriple(major, minor, patch) with any fields.
CallVersionTriple ==
    /\ call = NoCall
    /\ \E major \in 0..MaxPart, minor \in Fields(MaxPart), patch \in Fields(MaxPart) :
         call' = [fn |-> "VersionTriple", major |-> major, minor |-> minor,
                  patch |-> patch, ret |-> VersionTriple(major, minor, patch)]
    /\ UNCHANGED <<checkVars, sessionVars>>

\* t.bump_compatible()
CallBumpCompatible ==
    /\ call = NoCall
    /\ \E t \in Triples(MaxPart) :
         call' = [fn |-> "bump_compatible", self |-> t, ret |-> bump_compatible(t)]
    /\ UNCHANGED <<checkVars, sessionVars>>

NextTriple == CallVersionTriple \/ CallBump \/ CallBumpCompatible

SpecTriple == InitCalls /\ [][NextTriple]_vars

\* A triple value: non-negative components, and no patch without a minor.
ValidTriple(t) ==
    /\ DOMAIN t = {"major", "minor", "patch"}
    /\ t.major >= 0
    /\ t.minor = None \/ t.minor >= 0
    /\ t.patch = None \/ t.patch >= 0
    /\ t.patch # None => t.minor # None

LastFolded == order[names[k]][Len(order[names[k]])]

\* C28 - in every state of check_validity the accumulator is empty, a
\* FixedVersion or a single VersionSpan, so that the left operand of every
\* intersection of the fold is never a DisjointVersionSpan; and right after
\* a clause `!=T` has been folded, an accumulator that is a span lies on
\* one side of the excluded range: all its versions are before T, or all
\* are at or after bump(T).
C28_AccumulatorNeverUnion ==
    /\ joint_spec.kind \in {"empty", "fixed", "span"}
    /\ (pc = "fold" /\ order[names[k]] # <<>> /\ LastFolded.op = "!="
        /\ joint_spec.kind = "span") =>
          LET T == LeadingOf(NumbersOf(LastFolded.version))
              B == bump(T)
              inside == {v \in Versions : VersionSpan_contains(joint_spec, v)}
          IN  \/ \A v \in inside : Before(v, T)
              \/ \A v \in inside : ~Before(v, B)

\* Two `!=` clauses have been folded and the accumulator is a span.
C28_Witness ==
    /\ pc = "fold"
    /\ Len(order["a"]) = 2
    /\ order["a"][1].op = "!=" /\ order["a"][2].op = "!="
    /\ joint_spec.kind = "span"
    /\ \E v \in Versions : VersionSpan_contains(joint_spec, v)

(***************************************************************************)
(* C29: getOrCreate when the creation of the session fails                 *)
(***************************************************************************)
\* C29 - whenever getOrCreate has called create_session and the creation
\* failed, in create_session itself or in operation.result: getOrCreate has
\* raised DataprocSparkConnectException if the failure was InvalidArgument
\* or PermissionDenied and RuntimeError 'Error while creating Dataproc
\* Session' otherwise, the event of the progress bar is set and its thread
\* is not alive, and the class-level active session id is None; and an
\* active session id is always that of a session getOrCreate has returned.
C29_FailedCreation ==
    /\ (call.fn = "getOrCreate" /\ call.create \notin {"not called", "ok"}) =>
          /\ call.ret =
                IF call.create \in {"InvalidArgument", "PermissionDenied"}
                THEN [raise |-> "DataprocSparkConnectException"]
                ELSE [raise |-> "RuntimeError: Error while creating Dataproc Session"]
          /\ stop_create_session_pbar_event
          /\ create_session_pbar_thread # "alive"
          /\ active_s8s_session_id = None
    /\ active_s8s_session_id # None => UuidOf(active_s8s_session_id) \in sessions

\* A session exists, it is found inactive and stopped, and the creation of
\* its successor has failed with PermissionDenied after the progress bar was
\* started.
C29_Witness ==
    /\ call.fn = "getOrCreate"
    /\ call.create = "PermissionDenied"
    /\ sessions # {}
    /\ create_session_pbar_thread = "finished"
    /\ active_s8s_session_id = None

(***************************************************************************)
(* terminate_s8s_session called on its own (as the function registered     *)
(* with atexit is), one step for every call to the service.  The service   *)
(* moves the session from state to state on its own.                       *)
(***************************************************************************)
\* terminate_s8s_session has not ended.
Running == [running |-> TRUE]

\* Session.State values that get_session can report.
SessionStates == {"CREATING", "ACTIVE", "TERMINATING", "TERMINATED", "FAILED"}

\* The function is called, for a session in some state.
TerminateCalled ==
    /\ tpc = "idle"
    /\ tpc' = "try"
    /\ \E s \in SessionStates : service_state' = s
    /\ UNCHANGED <<state, raised, termination, observed>>
    /\ UNCHANGED <<checkVars, call, active_s8s_session_id, active_s8s_session_uuid,
                   default_session, sessions, created, pbarVars>>

\* The exception e is raised inside the try statement: it is caught by one
\* of the except clauses, or it leaves the function.
RaisedInTry(e) ==
    /\ raised' = e
    /\ IF e \in CaughtErrors
       THEN tpc' = "after_try" /\ UNCHANGED termination
       ELSE tpc' = "done" /\ termination' = Raise(e)

\* session_client.terminate_session(...), then `state = Session.State.ACTIVE`
TerminateSession ==
    /\ tpc = "try"
    /\ \E answer \in TerminateOutcomes :
         IF answer = "ok"
         THEN state' = "ACTIVE" /\ tpc' = "poll" /\ UNCHANGED <<raised, termination>>
         ELSE RaisedInTry(answer) /\ UNCHANGED state
    /\ UNCHANGED <<observed, service_state>>
    /\ UNCHANGED <<checkVars, call, active_s8s_session_id, active_s8s_session_uuid,
                   default_session, sessions, created, pbarVars>>

\* The states get_session has returned, the last MaxPolls of them.
Observe(obs, s) ==
    IF Len(obs) < MaxPolls THEN Append(obs, s) ELSE Append(Tail(obs), s)

\* One iteration of the while loop: get_session answers with the state of
\* the session, or raises.
GetSession ==
    /\ tpc = "poll"
    /\ state \notin TerminalStates
    /\ \E answer \in {service_state} \cup ApiErrors :
         IF answer \in ApiErrors
         THEN RaisedInTry(answer) /\ UNCHANGED <<state, observed>>
         ELSE /\ state' = answer
              /\ observed' = Observe(observed, answer)
              /\ UNCHANGED <<tpc, raised, termination>>
    /\ UNCHANGED service_state
    /\ UNCHANGED <<checkVars, call, active_s8s_session_id, active_s8s_session_uuid,
                   default_session, sessions, created, pbarVars>>

\* After the try statement (the loop has ended, or an exception was caught):
\* `if state is not None and state == Session.State.FAILED: raise`
CheckFailed ==
    /\ \/ tpc = "poll" /\ state \in TerminalStates
       \/ tpc = "after_try"
    /\ termination' = IF state = "FAILED"
                      THEN Raise("RuntimeError: Dataproc Session termination failed")
                      ELSE Returned
    /\ tpc' = "done"
    /\ UNCHANGED <<state, raised, observed, service_state>>
    /\ UNCHANGED <<checkVars, call, active_s8s_session_id, active_s8s_session_uuid,
                   default_session, sessions, created, pbarVars>>

\* The session changes its state at the service while the function runs.
ServiceStep ==
    /\ tpc \in {"try", "poll", "after_try"}
    /\ \/ service_state = "CREATING" /\ service_state' \in {"ACTIVE", "FAILED"}
       \/ service_state = "ACTIVE" /\ service_state' \in {"TERMINATING", "FAILED"}
       \/ service_state = "TERMINATING" /\ service_state' \in {"TERMINATED", "FAILED"}
    /\ UNCHANGED <<tpc, state, raised, termination, observed>>
    /\ UNCHANGED <<checkVars, call, active_s8s_session_id, active_s8s_session_uuid,
                   default_session, sessions, created, pbarVars>>

NextTerminate ==
    TerminateCalled \/ TerminateSession \/ GetSession \/ CheckFailed \/ ServiceStep

\* The function runs on: a step of its own that can be taken is taken.
SpecTerminate ==
    /\ InitCalls
    /\ [][NextTerminate]_vars
    /\ WF_vars(TerminateSession) /\ WF_vars(GetSession) /\ WF_vars(CheckFailed)

\* The last state get_session has returned ("none" before the first answer).
LastObserved == IF observed = <<>> THEN "none" ELSE observed[Len(observed)]

\* The function has ended by returning or by raising its own RuntimeError,
\* after its termination request was accepted.
EndedAfterPolling ==
    /\ tpc = "done"
    /\ state # "None"
    /\ termination \in {Returned, Raise("RuntimeError: Dataproc Session termination failed")}

\* No answer but the last was TERMINATING, TERMINATED or FAILED: the
\* function asked again after every other answer and after no such answer.
PolledWhileOther ==
    \A j \in 1..(Len(observed) - 1) :
        observed[j] \notin {"TERMINATING", "TERMINATED", "FAILED"}

\* RuntimeError is raised exactly when the last observed state is FAILED.
RaisesIffFailed ==
    tpc = "done" =>
        ( termination = Raise("RuntimeError: Dataproc Session termination failed")
          <=> LastObserved = "FAILED" )

\* A session that has reached one of the three states is not polled forever.
PollingEnds ==
    (tpc = "poll" /\ service_state \in {"TERMINATING", "TERMINATED", "FAILED"})
        ~> (tpc = "done")

\* C30 as stated: once the termination request is accepted, the function
\* returns only after an observed state is TERMINATING, TERMINATED or FAILED,
\* keeps polling while any other state is reported, and raises RuntimeError
\* exactly when the last observed state is FAILED.
C30_ReturnsOnlyAfterTerminalState ==
    /\ [](EndedAfterPolling =>
            LastObserved \in {"TERMINATING", "TERMINATED", "FAILED"})
    /\ [](PolledWhileOther)
    /\ [](RaisesIffFailed)
    /\ PollingEnds

\* C30 amended: once the termination request is accepted, the function ends
\* only after an observed state is TERMINATING, TERMINATED or FAILED or after
\* get_session has raised NotFound, FailedPrecondition or Aborted; it keeps
\* polling while any other state is reported and no exception is raised, and
\* raises RuntimeError exactly when the last observed state is FAILED.
C30_ReturnsAfterTerminalStateOrCaughtError ==
    /\ [](EndedAfterPolling =>
            \/ LastObserved \in {"TERMINATING", "TERMINATED", "FAILED"}
            \/ raised \in {"NotFound", "FailedPrecondition", "Aborted"})
    /\ [](PolledWhileOther)
    /\ [](RaisesIffFailed)
    /\ PollingEnds

\* The session was reported ACTIVE, then TERMINATING, and the function
\* returned.
C30_Witness ==
    /\ tpc = "done"
    /\ termination = Returned
    /\ observed = <<"ACTIVE", "TERMINATING">>
    /\ raised = "none"

====
